---- MODULE Spec2Model ----
(***************************************************************************)
(* A model of the fuzzy-Max chess engine: the bitboard position            *)
(* (src/position.cc), the two searches SMTS and MABS and the UCI protocol  *)
(* loop (src/fuzzymax.cc).                                                 *)
(*                                                                         *)
(* A 64-bit bitboard is modelled as the set of its set bits, a subset of   *)
(* 0..63: `bb & (1ULL << sq)` is `sq \in bb`, `|` is \cup, `&= ~mask` is   *)
(* set difference, __builtin_ctzll is the least element and                *)
(* __builtin_popcountll is Cardinality.                                    *)
(***************************************************************************)
EXTENDS Integers, Sequences, FiniteSets, TLC

VARIABLES
    pos,                \* cpp_main: Position pos
    gameHashes,         \* global std::vector<uint64_t> gameHashes
    stop_search,        \* global std::atomic<bool> stop_search
    use_bandit_search,  \* global bool use_bandit_search
    movetime,           \* cpp_main: int movetime
    target_depth,       \* go handler: int target_depth
    current_depth,      \* go handler: int current_depth
    best_pv,            \* go handler: std::vector<Move> best_pv
    timer,              \* go handler: timer_thread ("none", "running", "done")
    pc,                 \* where the protocol loop stands
    out,                \* the last line written after "bestmove" ("" before any)
    line,               \* the move tokens read so far by the running position command
    last,               \* what the latest SMTS/MABS call of the go loop returned
    completed_pv        \* PV of the latest iteration during which stop_search stayed false

vars == <<pos, gameHashes, stop_search, use_bandit_search, movetime, target_depth,
          current_depth, best_pv, timer, pc, out, line, last, completed_pv>>

-----------------------------------------------------------------------------
(* Bitboard helpers *)

Squares == 0..63

ctz(bb) == CHOOSE s \in bb : \A t \in bb : s <= t

SquareSeq == [i \in 1..64 |-> i - 1]

\* The squares of bb in the order `while (bb) { sq = ctz(bb); bb &= bb - 1; }` visits them.
BitSeq(bb) == SelectSeq(SquareSeq, LAMBDA s : s \in bb)

RECURSIVE Cat(_)
Cat(ss) == IF ss = <<>> THEN <<>> ELSE Head(ss) \o Cat(Tail(ss))

OnBoard(r, f) == r >= 0 /\ r < 8 /\ f >= 0 /\ f < 8

Move(from, to, promotion) == [from |-> from, to |-> to, promotion |-> promotion]

bishopDir == << <<1, 1>>, <<1, -1>>, <<-1, 1>>, <<-1, -1>> >>

rookDir == << <<1, 0>>, <<-1, 0>>, <<0, 1>>, <<0, -1>> >>

queenDir == << <<1, 1>>, <<1, -1>>, <<-1, 1>>, <<-1, -1>>,
               <<1, 0>>, <<-1, 0>>, <<0, 1>>, <<0, -1>> >>

knightDeltas == << <<2, 1>>, <<1, 2>>, <<-1, 2>>, <<-2, 1>>,
                   <<-2, -1>>, <<-1, -2>>, <<1, -2>>, <<2, -1>> >>

kingDeltas == << <<1, 0>>, <<1, 1>>, <<0, 1>>, <<-1, 1>>,
                 <<-1, 0>>, <<-1, -1>>, <<0, -1>>, <<1, -1>> >>

\* wOcc (lo = 0) and bOcc (lo = 6) as the constructor, makeMove and fromFEN recompute them.
Occ(pieces, lo) ==
    pieces[lo] \cup pieces[lo + 1] \cup pieces[lo + 2] \cup
    pieces[lo + 3] \cup pieces[lo + 4] \cup pieces[lo + 5]

WithOcc(pieces, side) ==
    [pieces |-> pieces,
     wOcc   |-> Occ(pieces, 0),
     bOcc   |-> Occ(pieces, 6),
     allOcc |-> Occ(pieces, 0) \cup Occ(pieces, 6),
     side   |-> side]

\* Position::Position(): the standard start position, white to move.
StartPosition ==
    WithOcc([i \in 0..11 |->
                CASE i = 0  -> 8..15
                  [] i = 1  -> {1, 6}
                  [] i = 2  -> {2, 5}
                  [] i = 3  -> {0, 7}
                  [] i = 4  -> {3}
                  [] i = 5  -> {4}
                  [] i = 6  -> 48..55
                  [] i = 7  -> {57, 62}
                  [] i = 8  -> {58, 61}
                  [] i = 9  -> {56, 63}
                  [] i = 10 -> {59}
                  [] i = 11 -> {60}], 0)

create_start_position == StartPosition

-----------------------------------------------------------------------------
(* Position::makeMove *)

\* PromotedPlane with the promotion field ignored: the pawn stays a pawn.
PromotedPlaneKeepsPawn(side, promotion) ==
    (IF side = 0 THEN 0 ELSE 6)

\* The plane the promoted piece goes to (the two switch statements).
PromotedPlane(side, promotion) ==
    (IF side = 0 THEN 0 ELSE 6) +
    (IF promotion \in {1, 2, 3, 4} THEN promotion ELSE 4)

\* makeMove with the side flipped before the test for a missing mover.
makeMoveFlipFirst(p, m) ==
    LET offset      == IF p.side = 0 THEN 0 ELSE 6
        enemyOffset == IF p.side = 0 THEN 6 ELSE 0
        movers      == {i \in 0..5 : m.from \in p.pieces[offset + i]}
        victims     == {i \in 0..5 : m.to \in p.pieces[enemyOffset + i]}
    IN  IF movers = {}
        THEN [p EXCEPT !.side = 1 - p.side]
        ELSE
            LET movingPieceIndex == offset + ctz(movers)
                lifted   == [p.pieces EXCEPT ![movingPieceIndex] = @ \ {m.from}]
                captured == IF victims = {}
                            THEN lifted
                            ELSE [lifted EXCEPT ![enemyOffset + ctz(victims)] = @ \ {m.to}]
                landing  == IF m.promotion # -1
                            THEN PromotedPlane(p.side, m.promotion)
                            ELSE movingPieceIndex
                placed   == [captured EXCEPT ![landing] = @ \cup {m.to}]
            IN  WithOcc(placed, 1 - p.side)

makeMove(p, m) ==
    LET offset      == IF p.side = 0 THEN 0 ELSE 6
        enemyOffset == IF p.side = 0 THEN 6 ELSE 0
        movers      == {i \in 0..5 : m.from \in p.pieces[offset + i]}
        victims     == {i \in 0..5 : m.to \in p.pieces[enemyOffset + i]}
    IN  IF movers = {}
        THEN p
        ELSE
            LET movingPieceIndex == offset + ctz(movers)
                lifted   == [p.pieces EXCEPT ![movingPieceIndex] = @ \ {m.from}]
                captured == IF victims = {}
                            THEN lifted
                            ELSE [lifted EXCEPT ![enemyOffset + ctz(victims)] = @ \ {m.to}]
                landing  == IF m.promotion # -1
                            THEN PromotedPlane(p.side, m.promotion)
                            ELSE movingPieceIndex
                placed   == [captured EXCEPT ![landing] = @ \cup {m.to}]
            IN  WithOcc(placed, 1 - p.side)

-----------------------------------------------------------------------------
(* Position::is_in_check *)

\* The squares a ray from (r, f) in direction d crosses before it leaves the board.
Ray(r, f, d) ==
    LET n == Cardinality({k \in 1..7 : OnBoard(r + k * d[1], f + k * d[2])})
    IN  [k \in 1..n |-> (r + k * d[1]) * 8 + (f + k * d[2])]

\* RayAttacked without the break at an occupied square.
RayAttackedThrough(p, r, f, d, attackers) ==
    LET ray == Ray(r, f, d)
    IN  \E i \in 1..Len(ray) : ray[i] \in attackers

\* One ray of the two sliding loops: an attacker is met before any occupied square.
RayAttacked(p, r, f, d, attackers) ==
    LET ray == Ray(r, f, d)
    IN  \E i \in 1..Len(ray) :
            /\ ray[i] \in attackers
            /\ \A j \in 1..(i - 1) : ray[j] \notin p.allOcc

is_in_check(p) ==
    LET kingIndex == IF p.side = 0 THEN 5 ELSE 11
    IN  IF p.pieces[kingIndex] = {}
        THEN FALSE
        ELSE
            LET kingSquare == ctz(p.pieces[kingIndex])
                kingRank   == kingSquare \div 8
                kingFile   == kingSquare % 8
                enemyOff   == IF p.side = 0 THEN 6 ELSE 0
                pawnRank   == IF p.side = 0 THEN kingRank + 1 ELSE kingRank - 1
            IN  \/ \E df \in {1, -1} :
                       /\ OnBoard(pawnRank, kingFile + df)
                       /\ (pawnRank * 8 + kingFile + df) \in p.pieces[enemyOff]
                \/ \E i \in 1..8 :
                       /\ OnBoard(kingRank + knightDeltas[i][1], kingFile + knightDeltas[i][2])
                       /\ ((kingRank + knightDeltas[i][1]) * 8 + kingFile + knightDeltas[i][2])
                              \in p.pieces[enemyOff + 1]
                \/ \E dr \in {-1, 0, 1}, df \in {-1, 0, 1} :
                       /\ ~(dr = 0 /\ df = 0)
                       /\ OnBoard(kingRank + dr, kingFile + df)
                       /\ ((kingRank + dr) * 8 + kingFile + df) \in p.pieces[enemyOff + 5]
                \/ \E i \in 1..4 :
                       RayAttacked(p, kingRank, kingFile, bishopDir[i],
                                   p.pieces[enemyOff + 2] \cup p.pieces[enemyOff + 4])
                \/ \E i \in 1..4 :
                       RayAttacked(p, kingRank, kingFile, rookDir[i],
                                   p.pieces[enemyOff + 3] \cup p.pieces[enemyOff + 4])

-----------------------------------------------------------------------------
(* Move generation *)

friendlyOcc(p) == IF p.side = 0 THEN p.wOcc ELSE p.bOcc

enemyOcc(p) == IF p.side = 0 THEN p.bOcc ELSE p.wOcc

\* The inner `while (true)` of generateSlidingMoves for one piece and one direction.
SlideFrom(p, from, d) ==
    LET ray  == Ray(from \div 8, from % 8, d)
        hit  == {i \in 1..Len(ray) : ray[i] \in friendlyOcc(p) \/ ray[i] \in enemyOcc(p)}
        last_i == IF hit = {} THEN Len(ray)
                  ELSE IF ray[ctz(hit)] \in friendlyOcc(p) THEN ctz(hit) - 1
                  ELSE ctz(hit)
    IN  [i \in 1..last_i |-> Move(from, ray[i], -1)]

generateSlidingMoves(p, pieceType, dir) ==
    LET offset == IF p.side = 0 THEN 0 ELSE 6
        froms  == BitSeq(p.pieces[offset + pieceType])
    IN  Cat([i \in 1..Len(froms) |->
                Cat([d \in 1..Len(dir) |-> SlideFrom(p, froms[i], dir[d])])])

\* The loop over a fixed offset table shared by generateKnightMoves and generateKingMoves.
StepFrom(p, from, deltas) ==
    LET r == from \div 8
        f == from % 8
        ok == SelectSeq([i \in 1..8 |-> i], LAMBDA i :
                  /\ OnBoard(r + deltas[i][1], f + deltas[i][2])
                  /\ ((r + deltas[i][1]) * 8 + f + deltas[i][2]) \notin friendlyOcc(p))
    IN  [k \in 1..Len(ok) |->
            Move(from, (r + deltas[ok[k]][1]) * 8 + f + deltas[ok[k]][2], -1)]

generateKnightMoves(p) ==
    LET offset == IF p.side = 0 THEN 0 ELSE 6
        froms  == BitSeq(p.pieces[offset + 1])
    IN  Cat([i \in 1..Len(froms) |-> StepFrom(p, froms[i], knightDeltas)])

generateKingMoves(p) ==
    LET offset == IF p.side = 0 THEN 0 ELSE 6
        king   == p.pieces[offset + 5]
    IN  IF king = {} THEN <<>> ELSE StepFrom(p, ctz(king), kingDeltas)

\* The moves emitted for one pawn destination: four promotions or one plain move.
PawnTo(from, to, isPromotion) ==
    IF isPromotion
    THEN << Move(from, to, 1), Move(from, to, 2), Move(from, to, 3), Move(from, to, 4) >>
    ELSE << Move(from, to, -1) >>

\* PawnFrom with the double step from the pawn's first rank added.
PawnFromDouble(p, from) ==
    LET r  == from \div 8
        f  == from % 8
        nr == IF p.side = 0 THEN r + 1 ELSE r - 1
        nr2 == IF p.side = 0 THEN r + 2 ELSE r - 2
        first == (p.side = 0 /\ r = 1) \/ (p.side = 1 /\ r = 6)
        isPromotion == (p.side = 0 /\ nr = 7) \/ (p.side = 1 /\ nr = 0)
    IN  IF nr < 0 \/ nr >= 8
        THEN <<>>
        ELSE (IF (nr * 8 + f) \notin p.allOcc
              THEN PawnTo(from, nr * 8 + f, isPromotion) ELSE <<>>)
             \o
             (IF first /\ (nr * 8 + f) \notin p.allOcc /\ (nr2 * 8 + f) \notin p.allOcc
              THEN << Move(from, nr2 * 8 + f, -1) >> ELSE <<>>)
             \o
             (IF f - 1 >= 0 /\ (nr * 8 + f - 1) \in enemyOcc(p)
              THEN PawnTo(from, nr * 8 + f - 1, isPromotion) ELSE <<>>)
             \o
             (IF f + 1 < 8 /\ (nr * 8 + f + 1) \in enemyOcc(p)
              THEN PawnTo(from, nr * 8 + f + 1, isPromotion) ELSE <<>>)

\* PawnFrom with the diagonal steps emitted onto empty squares as well.
PawnFromOntoEmpty(p, from) ==
    LET r  == from \div 8
        f  == from % 8
        nr == IF p.side = 0 THEN r + 1 ELSE r - 1
        isPromotion == (p.side = 0 /\ nr = 7) \/ (p.side = 1 /\ nr = 0)
    IN  IF nr < 0 \/ nr >= 8
        THEN <<>>
        ELSE (IF (nr * 8 + f) \notin p.allOcc
              THEN PawnTo(from, nr * 8 + f, isPromotion) ELSE <<>>)
             \o
             (IF f - 1 >= 0 /\ (nr * 8 + f - 1) \notin friendlyOcc(p)
              THEN PawnTo(from, nr * 8 + f - 1, isPromotion) ELSE <<>>)
             \o
             (IF f + 1 < 8 /\ (nr * 8 + f + 1) \notin friendlyOcc(p)
              THEN PawnTo(from, nr * 8 + f + 1, isPromotion) ELSE <<>>)

PawnFrom(p, from) ==
    LET r  == from \div 8
        f  == from % 8
        nr == IF p.side = 0 THEN r + 1 ELSE r - 1
        isPromotion == (p.side = 0 /\ nr = 7) \/ (p.side = 1 /\ nr = 0)
    IN  IF nr < 0 \/ nr >= 8
        THEN <<>>
        ELSE (IF (nr * 8 + f) \notin p.allOcc
              THEN PawnTo(from, nr * 8 + f, isPromotion) ELSE <<>>)
             \o
             (IF f - 1 >= 0 /\ (nr * 8 + f - 1) \in enemyOcc(p)
              THEN PawnTo(from, nr * 8 + f - 1, isPromotion) ELSE <<>>)
             \o
             (IF f + 1 < 8 /\ (nr * 8 + f + 1) \in enemyOcc(p)
              THEN PawnTo(from, nr * 8 + f + 1, isPromotion) ELSE <<>>)

generatePawnMoves(p) ==
    LET offset == IF p.side = 0 THEN 0 ELSE 6
        froms  == BitSeq(p.pieces[offset])
    IN  Cat([i \in 1..Len(froms) |-> PawnFrom(p, froms[i])])

pseudoMoves(p) ==
    generateSlidingMoves(p, 2, bishopDir) \o
    generateSlidingMoves(p, 3, rookDir) \o
    generateSlidingMoves(p, 4, queenDir) \o
    generateKnightMoves(p) \o
    generateKingMoves(p) \o
    generatePawnMoves(p)

\* The filter of genMoves: the detector runs on the position after the move, whose
\* side has already flipped.
genMoves(p) == SelectSeq(pseudoMoves(p), LAMBDA m : ~is_in_check(makeMove(p, m)))

is_checkmate(p) == is_in_check(p) /\ genMoves(p) = <<>>

is_stalemate(p) == ~is_in_check(p) /\ genMoves(p) = <<>>

-----------------------------------------------------------------------------
(* Position::isInsufficientMaterial *)

\* The lambda bishops_have_both_colors: a bishop on a square with (r + f) even
\* and one on a square with (r + f) odd.
bishops_have_both_colors(bishopsBB) ==
    LET isLight(sq) == ((sq \div 8) + (sq % 8)) % 2 = 0
    IN  /\ \E sq \in bishopsBB : isLight(sq)
        /\ \E sq \in bishopsBB : ~isLight(sq)

\* has_mating_material with any two bishops accepted, whatever their squares.
has_mating_materialAnyBishops(p, white) ==
    LET N         == Cardinality(p.pieces[IF white THEN 1 ELSE 7])
        bishopsBB == p.pieces[IF white THEN 2 ELSE 8]
    IN  \/ N >= 1 /\ Cardinality(bishopsBB) >= 1
        \/ Cardinality(bishopsBB) >= 2
        \/ N >= 3

\* The lambda has_mating_material.
has_mating_material(p, white) ==
    LET N         == Cardinality(p.pieces[IF white THEN 1 ELSE 7])
        bishopsBB == p.pieces[IF white THEN 2 ELSE 8]
    IN  \/ N >= 1 /\ Cardinality(bishopsBB) >= 1
        \/ Cardinality(bishopsBB) >= 2 /\ bishops_have_both_colors(bishopsBB)
        \/ N >= 3

isInsufficientMaterial(p) ==
    IF Cardinality(p.pieces[0]) + Cardinality(p.pieces[6]) > 0 THEN FALSE
    ELSE IF Cardinality(p.pieces[3]) + Cardinality(p.pieces[9]) > 0 THEN FALSE
    ELSE IF Cardinality(p.pieces[4]) + Cardinality(p.pieces[10]) > 0 THEN FALSE
    ELSE ~has_mating_material(p, TRUE) /\ ~has_mating_material(p, FALSE)

-----------------------------------------------------------------------------
(* Zobrist hashing *)

\* The table is filled once with draws of a 64-bit generator.  The draws are
\* modelled as independent: each constant is a generator of its own of the XOR
\* group, so a hash is the set of the constants XORed an odd number of times.
ZobristTable(pieceType, sq) == {<<pieceType, sq>>}

ZobristBlack == {<<12, 0>>}

Xor(a, b) == (a \ b) \cup (b \ a)

RECURSIVE XorTable(_, _, _)
XorTable(h, pieceType, sqs) ==
    IF sqs = <<>> THEN h
    ELSE XorTable(Xor(h, ZobristTable(pieceType, Head(sqs))), pieceType, Tail(sqs))

RECURSIVE HashPlanes(_, _, _)
HashPlanes(p, h, pieceType) ==
    IF pieceType = 12 THEN h
    ELSE HashPlanes(p, XorTable(h, pieceType, BitSeq(p.pieces[pieceType])), pieceType + 1)

getZobristHash(p) ==
    LET h == HashPlanes(p, {}, 0)
    IN  IF p.side = 1 THEN Xor(h, ZobristBlack) ELSE h

\* is_threefold_repetition with the threshold one too low.
is_twofold_repetition(p, hashes) ==
    Cardinality({i \in 1..Len(hashes) : hashes[i] = getZobristHash(p)}) >= 2

\* Position::is_threefold_repetition against the global gameHashes.
is_threefold_repetition(p, hashes) ==
    Cardinality({i \in 1..Len(hashes) : hashes[i] = getZobristHash(p)}) >= 3

-----------------------------------------------------------------------------
(* Characters and the move encoding at the protocol boundary *)

Lower == << "a", "b", "c", "d", "e", "f", "g", "h", "i", "j", "k", "l", "m",
            "n", "o", "p", "q", "r", "s", "t", "u", "v", "w", "x", "y", "z" >>

Upper == << "A", "B", "C", "D", "E", "F", "G", "H", "I", "J", "K", "L", "M",
            "N", "O", "P", "Q", "R", "S", "T", "U", "V", "W", "X", "Y", "Z" >>

Digit == << "0", "1", "2", "3", "4", "5", "6", "7", "8", "9" >>

\* A std::string is a TLA+ string; s[i - 1] of the code is CharAt(s, i).
CharAt(s, i) == SubSeq(s, i, i)

IndexIn(seq, c) == CHOOSE i \in 1..Len(seq) : seq[i] = c

IsIn(seq, c) == \E i \in 1..Len(seq) : seq[i] = c

\* The character code (ASCII) of the characters the protocol reads.
Ord(c) ==
    IF IsIn(Lower, c) THEN 96 + IndexIn(Lower, c)
    ELSE IF IsIn(Upper, c) THEN 64 + IndexIn(Upper, c)
    ELSE IF IsIn(Digit, c) THEN 47 + IndexIn(Digit, c)
    ELSE IF c = "/" THEN 47
    ELSE 45

Chr(n) ==
    IF n >= 97 /\ n <= 122 THEN Lower[n - 96]
    ELSE IF n >= 65 /\ n <= 90 THEN Upper[n - 64]
    ELSE IF n >= 48 /\ n <= 57 THEN Digit[n - 47]
    ELSE IF n = 47 THEN "/"
    ELSE "-"

tolower(c) == IF IsIn(Upper, c) THEN Lower[IndexIn(Upper, c)] ELSE c

uci_to_move(moveStr) ==
    IF Len(moveStr) < 4
    THEN Move(-1, -1, -1)
    ELSE
        LET fromFile == Ord(CharAt(moveStr, 1)) - Ord("a")
            fromRank == Ord(CharAt(moveStr, 2)) - Ord("1")
            toFile   == Ord(CharAt(moveStr, 3)) - Ord("a")
            toRank   == Ord(CharAt(moveStr, 4)) - Ord("1")
            prom     == tolower(CharAt(moveStr, 5))
            promotion ==
                IF Len(moveStr) >= 5
                THEN CASE prom = "n" -> 1
                       [] prom = "b" -> 2
                       [] prom = "r" -> 3
                       [] prom = "q" -> 4
                       [] OTHER      -> 4
                ELSE -1
        IN  Move(fromRank * 8 + fromFile, toRank * 8 + toFile, promotion)

sq_to_str(sq) == Chr(Ord("a") + (sq % 8)) \o Chr(Ord("1") + (sq \div 8))

move_to_uci(m) ==
    IF m.from < 0 \/ m.to < 0 THEN "0000"
    ELSE sq_to_str(m.from) \o sq_to_str(m.to)

move_to_uci_with_promotion(m) ==
    LET uci == move_to_uci(m)
        promotionPiece == IF m.promotion >= 6 THEN m.promotion - 6 ELSE m.promotion
    IN  IF m.promotion # -1
        THEN uci \o (CASE promotionPiece = 1 -> "n"
                        [] promotionPiece = 2 -> "b"
                        [] promotionPiece = 3 -> "r"
                        [] promotionPiece = 4 -> "q"
                        [] OTHER              -> "q")
        ELSE uci

-----------------------------------------------------------------------------
(* Position::fromFEN *)

symbols == "PNBRQKpnbrqk"

\* The switch of fromFEN: the plane of a piece letter, -1 for any other character.
PieceIndex(c) ==
    IF \E i \in 1..12 : CharAt(symbols, i) = c
    THEN (CHOOSE i \in 1..12 : CharAt(symbols, i) = c) - 1
    ELSE -1

\* The loop over the placement field.  A square outside 0..63 makes the shift of
\* the code undefined; the FEN inputs of the model put no piece letter there.
RECURSIVE PlaceFEN(_, _, _, _)
PlaceFEN(pieces, placement, rank, file) ==
    IF placement = "" THEN pieces
    ELSE
        LET c      == Head(placement)
            square == rank * 8 + file
            index  == PieceIndex(c)
        IN  IF c = "/" THEN PlaceFEN(pieces, Tail(placement), rank - 1, 0)
            ELSE IF IsIn(Digit, c)
            THEN PlaceFEN(pieces, Tail(placement), rank, file + (Ord(c) - Ord("0")))
            ELSE PlaceFEN(IF index # -1 /\ square \in Squares
                          THEN [pieces EXCEPT ![index] = @ \cup {square}]
                          ELSE pieces,
                          Tail(placement), rank, file + 1)

\* fen is the sequence of the whitespace-separated fields `iss >> placement >>
\* activeColor >> ...` extracts; a field that is missing stays the empty string.
fromFEN(fen) ==
    LET placement   == IF Len(fen) >= 1 THEN fen[1] ELSE ""
        activeColor == IF Len(fen) >= 2 THEN fen[2] ELSE ""
    IN  WithOcc(PlaceFEN([i \in 0..11 |-> {}], placement, 7, 0),
                IF activeColor = "w" THEN 0 ELSE 1)

-----------------------------------------------------------------------------
(* Position::to_string *)

\* board[sq] after the loop over the planes: the letter of the last plane that
\* holds the square, '.' when none does.
BoardChar(p, sq) ==
    LET planes == {i \in 0..11 : sq \in p.pieces[i]}
    IN  IF planes = {} THEN "."
        ELSE CharAt(symbols, (CHOOSE i \in planes : \A j \in planes : j <= i) + 1)

RECURSIVE RowString(_, _, _)
RowString(p, rank, file) ==
    IF file = 8 THEN "\n"
    ELSE BoardChar(p, rank * 8 + file) \o " " \o RowString(p, rank, file + 1)

\* to_string with the ranks written from rank 1 up.
to_stringRankUp(p) ==
    LET RECURSIVE Rows(_)
        Rows(rank) == IF rank > 7 THEN "" ELSE RowString(p, rank, 0) \o Rows(rank + 1)
    IN  Rows(0)

to_string(p) ==
    LET RECURSIVE Rows(_)
        Rows(rank) == IF rank < 0 THEN "" ELSE RowString(p, rank, 0) \o Rows(rank - 1)
    IN  Rows(7)

-----------------------------------------------------------------------------
(* Search: evaluate, SMTS and MABS *)

pieceValues == << 100, 320, 330, 500, 900, 20000,
                  -100, -320, -330, -500, -900, -20000 >>

RECURSIVE Material(_, _)
Material(p, i) ==
    IF i = 12 THEN 0
    ELSE pieceValues[i + 1] * Cardinality(p.pieces[i]) + Material(p, i + 1)

evaluate(p) ==
    LET scoreWhiteMinusBlack == Material(p, 0)
    IN  IF p.side = 0 THEN scoreWhiteMinusBlack ELSE -scoreWhiteMinusBlack

\* A `double` of the searches is kept in fixed point: VS units to the centipawn.
VS == 100

\* std::numeric_limits<double>::infinity(); -Inf is its negation.
Inf == 1000000000

\* static_cast<double>(evaluate(pos))
EvalV(p) == evaluate(p) * VS

IsInf(v) == v = Inf \/ v = -Inf

\* a + b of doubles (an infinite operand wins; the searches never add +inf to -inf).
AddV(a, b) == IF IsInf(a) THEN a ELSE IF IsInf(b) THEN b ELSE a + b

\* a / n of doubles, truncated to the fixed-point unit.
DivV(a, n) == IF IsInf(a) THEN a ELSE IF a >= 0 THEN a \div n ELSE -((-a) \div n)

\* The stop flag as one search call sees it.  The only writer while a search
\* runs is the timer task, which stores true once: the schedule s is <<>> when no
\* store lands during the call and <<k>> when the first k loads of the call
\* return false and every later one true.  n counts the loads made so far.
Stopped(s, n) == s # <<>> /\ n >= s[1]

\* What both searches return when they stop at a node without searching it.
Leaf(p, n, gens) ==
    [value |-> EvalV(p), pvs |-> {<<>>}, n |-> n, nodes |-> 1, gens |-> gens]

MaxOf(vals) == CHOOSE v \in {vals[i] : i \in 1..Len(vals)} :
                   \A i \in 1..Len(vals) : v >= vals[i]

\* std::exp(beta * (val - max_val)) for a difference of d whole centipawns, in
\* thousandths; below a thousandth from d = 8 on.
ExpMilli(d) == IF d <= 7 THEN << 1000, 368, 135, 50, 18, 7, 2, 1 >>[d + 1] ELSE 0

\* The double exp(-x) is zero from x = 745.14 on (in VS units).
ExpUnderflow == 74513

\* std::log(total_weight) to the whole centipawn, total_weight in thousandths.
LogRound(t) ==
    IF t < 1649 THEN 0
    ELSE IF t < 4482 THEN 1
    ELSE IF t < 12183 THEN 2
    ELSE IF t < 33116 THEN 3
    ELSE IF t < 90018 THEN 4
    ELSE IF t < 244692 THEN 5
    ELSE 6

RECURSIVE SumSeq(_)
SumSeq(xs) == IF xs = <<>> THEN 0 ELSE Head(xs) + SumSeq(Tail(xs))

\* (1.0 / beta) * std::log(total_weight) + max_val, beta = 1.
softmax_eval(child_vals) ==
    LET max_val == MaxOf(child_vals)
        weights == [i \in 1..Len(child_vals) |->
                       ExpMilli((max_val - child_vals[i]) \div VS)]
    IN  max_val + LogRound(SumSeq(weights)) * VS

\* The indices the sampling loop can choose: r is drawn from [0, total_weight), the
\* first index whose running sum reaches r wins; index 0 wins when r = 0, any
\* other index needs a weight that is not zero.
Samples(child_vals) ==
    {1} \cup {i \in 1..Len(child_vals) :
                 MaxOf(child_vals) - child_vals[i] <= ExpUnderflow}

RECURSIVE SMTS(_, _, _, _)
RECURSIVE SMTSChildren(_, _, _, _, _, _)

\* The loop over the moves of SMTS: acc gathers child_vals and child_pvs (for each
\* child the PVs its own sampling can return).
SMTSChildren(p, moves, depth, s, i, acc) ==
    IF i > Len(moves) THEN acc
    ELSE
        LET r    == SMTS(makeMove(p, moves[i]), depth - 1, s, acc.n)
            acc2 == [child_vals |-> Append(acc.child_vals, -r.value),
                     child_pvs  |-> Append(acc.child_pvs, r.pvs),
                     n          |-> r.n + 1,
                     nodes      |-> acc.nodes + r.nodes,
                     gens       |-> acc.gens + r.gens]
        IN  IF Stopped(s, r.n) THEN acc2
            ELSE SMTSChildren(p, moves, depth, s, i + 1, acc2)

\* SMTS without the load of the stop flag at its entry.
SMTSNoEntryLoad(p, depth, s, n) ==
    IF depth = 0 THEN Leaf(p, n + 1, 0)
    ELSE
        LET moves == genMoves(p)
        IN  IF moves = <<>> THEN Leaf(p, n + 1, 1)
            ELSE
                LET acc == SMTSChildren(p, moves, depth, s, 1,
                               [child_vals |-> <<>>, child_pvs |-> <<>>,
                                n |-> n + 1, nodes |-> 1, gens |-> 1])
                IN  IF acc.child_vals = <<>>
                    THEN Leaf(p, acc.n, acc.gens)
                    ELSE [value |-> softmax_eval(acc.child_vals),
                          pvs   |-> UNION {{<<moves[i]>> \o cpv : cpv \in acc.child_pvs[i]} :
                                              i \in Samples(acc.child_vals)},
                          n     |-> acc.n,
                          nodes |-> acc.nodes,
                          gens  |-> acc.gens]

\* SMTS with the chosen move left out of the PV it returns.
SMTSChildPvOnly(p, depth, s, n) ==
    IF Stopped(s, n) THEN Leaf(p, n + 1, 0)
    ELSE IF depth = 0 THEN Leaf(p, n + 1, 0)
    ELSE
        LET moves == genMoves(p)
        IN  IF moves = <<>> THEN Leaf(p, n + 1, 1)
            ELSE
                LET acc == SMTSChildren(p, moves, depth, s, 1,
                               [child_vals |-> <<>>, child_pvs |-> <<>>,
                                n |-> n + 1, nodes |-> 1, gens |-> 1])
                IN  IF acc.child_vals = <<>>
                    THEN Leaf(p, acc.n, acc.gens)
                    ELSE [value |-> softmax_eval(acc.child_vals),
                          pvs   |-> UNION {acc.child_pvs[i] : i \in Samples(acc.child_vals)},
                          n     |-> acc.n,
                          nodes |-> acc.nodes,
                          gens  |-> acc.gens]

\* SMTS with the PV of the first child appended to whichever move is chosen.
SMTSFirstChildPv(p, depth, s, n) ==
    IF Stopped(s, n) THEN Leaf(p, n + 1, 0)
    ELSE IF depth = 0 THEN Leaf(p, n + 1, 0)
    ELSE
        LET moves == genMoves(p)
        IN  IF moves = <<>> THEN Leaf(p, n + 1, 1)
            ELSE
                LET acc == SMTSChildren(p, moves, depth, s, 1,
                               [child_vals |-> <<>>, child_pvs |-> <<>>,
                                n |-> n + 1, nodes |-> 1, gens |-> 1])
                IN  IF acc.child_vals = <<>>
                    THEN Leaf(p, acc.n, acc.gens)
                    ELSE [value |-> softmax_eval(acc.child_vals),
                          pvs   |-> UNION {{<<moves[i]>> \o cpv : cpv \in acc.child_pvs[1]} :
                                              i \in Samples(acc.child_vals)},
                          n     |-> acc.n,
                          nodes |-> acc.nodes,
                          gens  |-> acc.gens]

\* SMTS(pos, depth, pv, rng) under the stop schedule s, entered after n loads.
\* Returns the value, the PVs the random draws can produce, the loads made, the
\* calls made (nodes) and the calls of getMoves (gens).
SMTS(p, depth, s, n) ==
    IF Stopped(s, n) THEN Leaf(p, n + 1, 0)
    ELSE IF depth = 0 THEN Leaf(p, n + 1, 0)
    ELSE
        LET moves == genMoves(p)
        IN  IF moves = <<>> THEN Leaf(p, n + 1, 1)
            ELSE
                LET acc == SMTSChildren(p, moves, depth, s, 1,
                               [child_vals |-> <<>>, child_pvs |-> <<>>,
                                n |-> n + 1, nodes |-> 1, gens |-> 1])
                IN  IF acc.child_vals = <<>>
                    THEN Leaf(p, acc.n, acc.gens)
                    ELSE [value |-> softmax_eval(acc.child_vals),
                          pvs   |-> UNION {{<<moves[i]>> \o cpv : cpv \in acc.child_pvs[i]} :
                                              i \in Samples(acc.child_vals)},
                          n     |-> acc.n,
                          nodes |-> acc.nodes,
                          gens  |-> acc.gens]

iterations == 100

\* round(100 * ln(iter)) for iter = 1..100.
LnCenti == << 0, 69, 110, 139, 161, 179, 195, 208, 220, 230, 240, 248, 256, 264, 271,
              277, 283, 289, 294, 300, 304, 309, 314, 318, 322, 326, 330, 333, 337, 340,
              343, 347, 350, 353, 356, 358, 361, 364, 366, 369, 371, 374, 376, 378, 381,
              383, 385, 387, 389, 391, 393, 395, 397, 399, 401, 403, 404, 406, 408, 409,
              411, 413, 414, 416, 417, 419, 420, 422, 423, 425, 426, 428, 429, 430, 432,
              433, 434, 436, 437, 438, 439, 441, 442, 443, 444, 445, 447, 448, 449, 450,
              451, 452, 453, 454, 455, 456, 457, 458, 460, 461 >>

ISqrt(x) == CHOOSE r \in 0..(x + 1) : r * r <= x /\ (r + 1) * (r + 1) > x

\* std::sqrt(2.0 * std::log(iter) / plays) in VS units.
Bonus(iter, plays) == ISqrt((2 * VS * VS * LnCenti[iter]) \div (100 * plays))

\* The UCB1 score of an arm: inf is 1 for +infinity, -1 for -infinity, else 0.
Ucb(plays, totalReward) ==
    IF plays = 0 THEN [inf |-> 1, avg |-> 0, plays |-> 0]
    ELSE IF IsInf(totalReward)
    THEN [inf |-> IF totalReward > 0 THEN 1 ELSE -1, avg |-> 0, plays |-> plays]
    ELSE [inf |-> 0, avg |-> DivV(totalReward, plays), plays |-> plays]

\* UcbGreater as `ucb >= bestUcb`.
UcbGreaterOrEqual(u, v, iter) ==
    \/ u.inf >= v.inf /\ (u.inf # 0 \/ v.inf # 0)
    \/ /\ u.inf = 0
       /\ v.inf = 0
       /\ IF u.avg = v.avg
          THEN iter = 1 \/ u.plays <= v.plays
          ELSE u.avg + Bonus(iter, u.plays) >= v.avg + Bonus(iter, v.plays)

\* `ucb > bestUcb`.  Two arms of equal average differ by the bonus alone, which
\* falls strictly with the plays when ln(iter) > 0; otherwise the scores are
\* compared in fixed point.
UcbGreater(u, v, iter) ==
    \/ u.inf > v.inf
    \/ /\ u.inf = 0
       /\ v.inf = 0
       /\ IF u.avg = v.avg
          THEN iter > 1 /\ u.plays < v.plays
          ELSE u.avg + Bonus(iter, u.plays) > v.avg + Bonus(iter, v.plays)

\* The selection loop of one iteration: 0 stands for `selected = -1`.
RECURSIVE SelectArm(_, _, _, _, _, _)
SelectArm(plays, totalReward, iter, i, selected, bestUcb) ==
    IF i > Len(plays) THEN selected
    ELSE LET ucb == Ucb(plays[i], totalReward[i])
         IN  IF UcbGreater(ucb, bestUcb, iter)
             THEN SelectArm(plays, totalReward, iter, i + 1, i, ucb)
             ELSE SelectArm(plays, totalReward, iter, i + 1, selected, bestUcb)

RECURSIVE MABS(_, _, _, _)
RECURSIVE MABSRange(_, _, _, _, _, _, _)

\* One turn of the `for (iter = 1; iter <= iterations; iter++)` loop of MABS;
\* st.done records a `break`.
MABSStep(p, moves, depth, s, iter, st) ==
    IF Stopped(s, st.n) THEN [st EXCEPT !.n = @ + 1, !.done = TRUE]
    ELSE
        LET selected == SelectArm(st.plays, st.totalReward, iter, 1, 0,
                                  [inf |-> -1, avg |-> 0, plays |-> 0])
        IN  IF selected = 0 THEN [st EXCEPT !.n = @ + 1, !.done = TRUE]
            ELSE
                LET r      == MABS(makeMove(p, moves[selected]), depth - 1, s, st.n + 1)
                    reward == -r.value
                    better == st.plays[selected] = 0 \/ reward > st.bestReward[selected]
                IN  [plays       |-> [st.plays EXCEPT ![selected] = @ + 1],
                     totalReward |-> [st.totalReward EXCEPT ![selected] = AddV(@, reward)],
                     bestReward  |-> IF better
                                     THEN [st.bestReward EXCEPT ![selected] = reward]
                                     ELSE st.bestReward,
                     bestPV      |-> IF better
                                     THEN [st.bestPV EXCEPT
                                              ![selected] = CHOOSE cpv \in r.pvs : TRUE]
                                     ELSE st.bestPV,
                     done        |-> FALSE,
                     n           |-> r.n,
                     nodes       |-> st.nodes + r.nodes,
                     gens        |-> st.gens + r.gens]

\* The turns lo..hi of the loop in order, split in halves to keep the nesting of
\* the definition shallow.
MABSRange(p, moves, depth, s, lo, hi, st) ==
    IF st.done THEN st
    ELSE IF lo = hi THEN MABSStep(p, moves, depth, s, lo, st)
    ELSE MABSRange(p, moves, depth, s, (lo + hi) \div 2 + 1, hi,
                   MABSRange(p, moves, depth, s, lo, (lo + hi) \div 2, st))

\* plays, totalReward, bestReward and bestPV as MABS declares them, after the
\* entry load of the call (load n) and its call of getMoves.
MABSStart(arms, n) ==
    [plays       |-> [i \in 1..arms |-> 0],
     totalReward |-> [i \in 1..arms |-> 0],
     bestReward  |-> [i \in 1..arms |-> -Inf],
     bestPV      |-> [i \in 1..arms |-> <<>>],
     done |-> FALSE,
     n |-> n + 1, nodes |-> 1, gens |-> 1]

\* The arrays of a MABS node when its loop has ended.
MABSStats(p, moves, depth, s, n) ==
    MABSRange(p, moves, depth, s, 1, iterations, MABSStart(Len(moves), n))

\* The average reward the final loop of MABS gives arm i.
ArmAvg(st, i) ==
    IF st.plays[i] > 0 THEN DivV(st.totalReward[i], st.plays[i]) ELSE st.bestReward[i]

\* BestArm as `avg >= bestAvg`: the last of the arms of maximal average.
BestArmLast(st) ==
    LET arms == 1..Len(st.plays)
        top  == CHOOSE a \in arms : \A b \in arms : ArmAvg(st, a) >= ArmAvg(st, b)
    IN  CHOOSE a \in arms :
            /\ ArmAvg(st, a) = ArmAvg(st, top)
            /\ \A b \in arms : ArmAvg(st, b) = ArmAvg(st, top) => a >= b

\* The final loop: bestArm stays 0 (here 1) unless an average exceeds -infinity.
BestArm(st) ==
    LET arms == 1..Len(st.plays)
        top  == CHOOSE a \in arms : \A b \in arms : ArmAvg(st, a) >= ArmAvg(st, b)
    IN  IF ArmAvg(st, top) = -Inf THEN 1
        ELSE CHOOSE a \in arms :
                 /\ ArmAvg(st, a) = ArmAvg(st, top)
                 /\ \A b \in arms : ArmAvg(st, b) = ArmAvg(st, top) => a <= b

\* MABS(pos, depth, pv, rng) under the stop schedule s, entered after n loads.
MABS(p, depth, s, n) ==
    IF Stopped(s, n) THEN Leaf(p, n + 1, 0)
    ELSE IF depth = 0 THEN Leaf(p, n + 1, 0)
    ELSE
        LET moves == genMoves(p)
        IN  IF moves = <<>> THEN Leaf(p, n + 1, 1)
            ELSE
                LET st      == MABSStats(p, moves, depth, s, n)
                    bestArm == BestArm(st)
                IN  [value |-> ArmAvg(st, bestArm),
                     pvs   |-> {<<moves[bestArm]>> \o st.bestPV[bestArm]},
                     n     |-> st.n,
                     nodes |-> st.nodes,
                     gens  |-> st.gens]

-----------------------------------------------------------------------------
(* The protocol loop: construction and the position command *)

NoResult == [value |-> 0, pv |-> <<>>, entry_stop |-> FALSE, nodes |-> 0, gens |-> 0]

\* cpp_main up to the first getline.
Init ==
    /\ pos = create_start_position
    /\ gameHashes = << getZobristHash(create_start_position) >>
    /\ stop_search = FALSE
    /\ use_bandit_search = FALSE
    /\ movetime = 0
    /\ target_depth = 0
    /\ current_depth = 0
    /\ best_pv = <<>>
    /\ timer = "none"
    /\ pc = "idle"
    /\ out = ""
    /\ line = <<>>
    /\ last = NoResult
    /\ completed_pv = <<>>

\* ApplyMove with the hash taken before the move is made.
ApplyMoveStaleHash(m) ==
    /\ pos' = makeMove(pos, m)
    /\ gameHashes' = Append(gameHashes, getZobristHash(pos))

\* pos = pos.makeMove(m); gameHashes.push_back(pos.getZobristHash());
ApplyMove(m) ==
    /\ pos' = makeMove(pos, m)
    /\ gameHashes' = Append(gameHashes, getZobristHash(makeMove(pos, m)))

\* One turn of `while (iss >> token)` of the position command.
ReadMove(token) ==
    /\ pc = "moves"
    /\ ApplyMove(uci_to_move(token))
    /\ line' = Append(line, token)
    /\ UNCHANGED <<stop_search, use_bandit_search, movetime, target_depth,
                   current_depth, best_pv, timer, pc, out, last, completed_pv>>

\* `position startpos`, with or without a `moves` token after it.
CmdPositionStartpos(hasMoves) ==
    /\ pc = "idle"
    /\ pos' = create_start_position
    /\ gameHashes' = << getZobristHash(create_start_position) >>
    /\ line' = <<>>
    /\ pc' = IF hasMoves THEN "moves" ELSE "idle"
    /\ UNCHANGED <<stop_search, use_bandit_search, movetime, target_depth,
                   current_depth, best_pv, timer, out, last, completed_pv>>

\* The token stream of a position command is exhausted.
EndOfMoves ==
    /\ pc = "moves"
    /\ pc' = "idle"
    /\ UNCHANGED <<pos, gameHashes, stop_search, use_bandit_search, movetime,
                   target_depth, current_depth, best_pv, timer, out, line, last,
                   completed_pv>>

\* `position fen <fields>`, with or without a `moves` token after the fields.
CmdPositionFen(fen, hasMoves) ==
    /\ pc = "idle"
    /\ pos' = fromFEN(fen)
    /\ gameHashes' = << getZobristHash(fromFEN(fen)) >>
    /\ line' = <<>>
    /\ pc' = IF hasMoves THEN "moves" ELSE "idle"
    /\ UNCHANGED <<stop_search, use_bandit_search, movetime, target_depth,
                   current_depth, best_pv, timer, out, last, completed_pv>>

CmdUciNewGame ==
    /\ pc = "idle"
    /\ pos' = create_start_position
    /\ gameHashes' = << getZobristHash(create_start_position) >>
    /\ stop_search' = FALSE
    /\ UNCHANGED <<use_bandit_search, movetime, target_depth, current_depth,
                   best_pv, timer, pc, out, line, last, completed_pv>>

-----------------------------------------------------------------------------
(* Spec: sessions of ucinewgame and position commands with arbitrary move tokens *)

MaxLine == 4

\* Move tokens a client may send: moves of a game, moves onto an own piece, moves
\* from an empty or an enemy square, with and without a promotion letter.
Tokens == { "f2f3", "e7e5", "g2g4", "d8h4", "e1e2", "e7e8q" }

FenKPK == << "4k3/8/8/8/8/8/4P3/4K3", "w", "-", "-", "0", "1" >>

FenQueens == << "3qk3/8/8/8/8/8/8/3QK3", "b" >>

Fens == { FenKPK, FenQueens }

ReadToken ==
    /\ Len(line) < MaxLine
    /\ \E token \in Tokens : ReadMove(token)

Next ==
    \/ CmdUciNewGame
    \/ \E hasMoves \in BOOLEAN : CmdPositionStartpos(hasMoves)
    \/ \E fen \in Fens, hasMoves \in BOOLEAN : CmdPositionFen(fen, hasMoves)
    \/ ReadToken
    \/ EndOfMoves

Spec == Init /\ [][Next]_vars

-----------------------------------------------------------------------------
(* The protocol loop: setoption, stop and the go request *)

MaxDepth == 25

CmdSetOption(value) ==
    /\ pc = "idle"
    /\ use_bandit_search' = value
    /\ UNCHANGED <<pos, gameHashes, stop_search, movetime, target_depth, current_depth,
                   best_pv, timer, pc, out, line, last, completed_pv>>

CmdStop ==
    /\ pc = "idle"
    /\ stop_search' = TRUE
    /\ UNCHANGED <<pos, gameHashes, use_bandit_search, movetime, target_depth,
                   current_depth, best_pv, timer, pc, out, line, last, completed_pv>>

\* The go handler from its first line to the start of the loop.  args holds the
\* numbers read after depth, movetime, wtime and btime; a token that is absent
\* leaves the default (MaxDepth, 0, 0, 0).
GoStart(args) ==
    /\ pc = "idle"
    /\ LET mt == IF args.movetime = 0
                 THEN (IF pos.side = 0 THEN args.wtime ELSE args.btime)
                 ELSE args.movetime
       IN  /\ movetime' = mt
           /\ timer' = IF mt > 0 THEN "running" ELSE "none"
    /\ target_depth' = args.depth
    /\ stop_search' = FALSE
    /\ current_depth' = 0
    /\ best_pv' = <<>>
    /\ pc' = "loop"
    /\ last' = NoResult
    /\ completed_pv' = <<>>
    /\ UNCHANGED <<pos, gameHashes, use_bandit_search, out, line>>

\* The timer task: its sleep loop ends (the deadline has passed or the flag is
\* set) and it stores true.
TimerFire ==
    /\ timer = "running"
    /\ stop_search' = TRUE
    /\ timer' = "done"
    /\ UNCHANGED <<pos, gameHashes, use_bandit_search, movetime, target_depth,
                   current_depth, best_pv, pc, out, line, last, completed_pv>>

\* LoopHead with the flag cleared at the top of every iteration.
LoopHeadClearsFlag ==
    /\ pc = "loop"
    /\ current_depth' = current_depth + 1
    /\ stop_search' = FALSE
    /\ pc' = "search"
    /\ UNCHANGED <<pos, gameHashes, use_bandit_search, movetime,
                   target_depth, best_pv, timer, out, line, last, completed_pv>>

\* The head of `while (true)`: current_depth++ and the load of the flag.
LoopHead ==
    /\ pc = "loop"
    /\ current_depth' = current_depth + 1
    /\ pc' = IF stop_search THEN "join" ELSE "search"
    /\ UNCHANGED <<pos, gameHashes, stop_search, use_bandit_search, movetime,
                   target_depth, best_pv, timer, out, line, last, completed_pv>>

\* The stop schedules one search call can meet: the flag is set already, or the
\* timer task stores true before load k of the call (k up to the bound), or not
\* during the call.
Schedules(maxPolls) ==
    IF stop_search THEN { <<0>> }
    ELSE IF timer = "running" THEN { <<>> } \cup { <<k>> : k \in 0..maxPolls }
    ELSE { <<>> }

\* Iterate with the search playing the first move of its PV on the game position.
IterateInPlace(r, pv, s) ==
    LET fired == Stopped(s, r.n - 1)
    IN  /\ stop_search' = (stop_search \/ fired)
        /\ timer' = IF fired /\ timer = "running" THEN "done" ELSE timer
        /\ last' = [value |-> r.value, pv |-> pv, entry_stop |-> Stopped(s, 0),
                    nodes |-> r.nodes, gens |-> r.gens]
        /\ best_pv' = IF pv # <<>> THEN pv ELSE best_pv
        /\ completed_pv' = IF stop_search \/ fired THEN completed_pv ELSE pv
        /\ pc' = IF movetime = 0 /\ current_depth >= target_depth THEN "join" ELSE "loop"
        /\ pos' = IF pv # <<>> THEN makeMove(pos, pv[1]) ELSE pos
        /\ UNCHANGED <<gameHashes, use_bandit_search, movetime, target_depth,
                       current_depth, out, line>>

\* One iteration of the loop after the load: the search call, the info line, the
\* update of best_pv and the depth test.  r is what the call returned, pv the PV
\* among those its random draws allow, s the schedule it ran under.
Iterate(r, pv, s) ==
    LET fired == Stopped(s, r.n - 1)
    IN  /\ stop_search' = (stop_search \/ fired)
        /\ timer' = IF fired /\ timer = "running" THEN "done" ELSE timer
        /\ last' = [value |-> r.value, pv |-> pv, entry_stop |-> Stopped(s, 0),
                    nodes |-> r.nodes, gens |-> r.gens]
        /\ best_pv' = IF pv # <<>> THEN pv ELSE best_pv
        /\ completed_pv' = IF stop_search \/ fired THEN completed_pv ELSE pv
        /\ pc' = IF movetime = 0 /\ current_depth >= target_depth THEN "join" ELSE "loop"
        /\ UNCHANGED <<pos, gameHashes, use_bandit_search, movetime, target_depth,
                       current_depth, out, line>>

SearchSMTS(maxDepth, maxPolls) ==
    /\ pc = "search"
    /\ ~use_bandit_search
    /\ current_depth <= maxDepth
    /\ \E s \in Schedules(maxPolls) :
           LET r == SMTS(pos, current_depth, s, 0)
           IN  \E pv \in r.pvs : Iterate(r, pv, s)

SearchMABS(maxDepth, maxPolls) ==
    /\ pc = "search"
    /\ use_bandit_search
    /\ current_depth <= maxDepth
    /\ \E s \in Schedules(maxPolls) :
           LET r == MABS(pos, current_depth, s, 0)
           IN  \E pv \in r.pvs : Iterate(r, pv, s)

\* GoEnd with the hash pushed whether or not a move was made.
GoEndPushAlways ==
    /\ pc = "join"
    /\ timer # "running"
    /\ timer' = "none"
    /\ pc' = "idle"
    /\ out' = IF best_pv # <<>> THEN move_to_uci(best_pv[1]) ELSE "0000"
    /\ pos' = IF best_pv # <<>> THEN makeMove(pos, best_pv[1]) ELSE pos
    /\ gameHashes' = Append(gameHashes, getZobristHash(pos'))
    /\ UNCHANGED <<stop_search, use_bandit_search, movetime, target_depth,
                   current_depth, best_pv, line, last, completed_pv>>

\* GoEnd without the join: the bestmove line does not wait for the timer task,
\* which stays as it is.
GoEndNoJoin ==
    /\ pc = "join"
    /\ pc' = "idle"
    /\ IF best_pv # <<>>
       THEN /\ out' = move_to_uci(best_pv[1])
            /\ ApplyMove(best_pv[1])
       ELSE /\ out' = "0000"
            /\ UNCHANGED <<pos, gameHashes>>
    /\ UNCHANGED <<stop_search, use_bandit_search, movetime, target_depth,
                   current_depth, best_pv, timer, line, last, completed_pv>>

\* After the loop: the join of the timer task, the bestmove line and the move.
GoEnd ==
    /\ pc = "join"
    /\ timer # "running"
    /\ timer' = "none"
    /\ pc' = "idle"
    /\ IF best_pv # <<>>
       THEN /\ out' = move_to_uci(best_pv[1])
            /\ ApplyMove(best_pv[1])
       ELSE /\ out' = "0000"
            /\ UNCHANGED <<pos, gameHashes>>
    /\ UNCHANGED <<stop_search, use_bandit_search, movetime, target_depth,
                   current_depth, best_pv, line, last, completed_pv>>

-----------------------------------------------------------------------------
(* SpecGo: go requests on small positions set by `position fen` *)

MaxSmtsDepth == 2

MaxMabsDepth == 1

MaxPolls == 3

MaxGoes == 1

FenWhiteBare == << "4k3/8/8/8/8/8/8/8", "w" >>

FenBlackBare == << "8/8/8/8/8/8/8/4K3" >>

FenCapture == << "4k3/8/8/8/8/3p4/4P3/4K3", "w" >>

GoFens == { FenWhiteBare, FenBlackBare, FenCapture }

GoArgs == [depth : {1, MaxSmtsDepth, MaxDepth}, movetime : {0, 30}, wtime : {0, 600},
           btime : {0}]

InitGo ==
    /\ \E fen \in GoFens :
           /\ pos = fromFEN(fen)
           /\ gameHashes = << getZobristHash(fromFEN(fen)) >>
    /\ stop_search = FALSE
    /\ use_bandit_search = FALSE
    /\ movetime = 0
    /\ target_depth = 0
    /\ current_depth = 0
    /\ best_pv = <<>>
    /\ timer = "none"
    /\ pc = "idle"
    /\ out = ""
    /\ line = <<>>
    /\ last = NoResult
    /\ completed_pv = <<>>

NextGo ==
    \/ \E value \in BOOLEAN : CmdSetOption(value)
    \/ CmdStop
    \/ \E args \in GoArgs : Len(gameHashes) <= MaxGoes /\ GoStart(args)
    \/ TimerFire
    \/ LoopHead
    \/ SearchSMTS(MaxSmtsDepth, MaxPolls)
    \/ SearchMABS(MaxMabsDepth, MaxPolls)
    \/ GoEnd

SpecGo == InitGo /\ [][NextGo]_vars

-----------------------------------------------------------------------------
(* SpecGoLive: go requests with any sign of their numbers, run to their end *)

\* Roots whose game tree has height at most one, so that a search of any depth
\* above one visits the same tree: no piece to move, or one pawn and nothing else.
FenLonePawn == << "8/8/8/8/8/8/4P3/8", "w" >>

LiveFens == { FenWhiteBare, FenBlackBare, FenLonePawn }

\* Every depth from DepthCeil on is kept as DepthCeil: it is above every depth a
\* request of LiveArgs asks for and above the height of the trees of LiveFens.
DepthCeil == MaxSmtsDepth + 1

LiveArgs == [depth : {-1, 0, 1, MaxSmtsDepth}, movetime : {-1, 0, 30}, wtime : {-1, 0, 600},
             btime : {0}]

InitGoLive ==
    /\ \E fen \in LiveFens :
           /\ pos = fromFEN(fen)
           /\ gameHashes = << getZobristHash(fromFEN(fen)) >>
    /\ stop_search = FALSE
    /\ use_bandit_search = FALSE
    /\ movetime = 0
    /\ target_depth = 0
    /\ current_depth = 0
    /\ best_pv = <<>>
    /\ timer = "none"
    /\ pc = "idle"
    /\ out = ""
    /\ line = <<>>
    /\ last = NoResult
    /\ completed_pv = <<>>

\* The head of `while (true)` at a depth of DepthCeil or more.
LoopHeadAtCeil ==
    /\ pc = "loop"
    /\ current_depth = DepthCeil
    /\ pc' = IF stop_search THEN "join" ELSE "search"
    /\ UNCHANGED <<pos, gameHashes, stop_search, use_bandit_search, movetime,
                   target_depth, current_depth, best_pv, timer, out, line, last,
                   completed_pv>>

\* The steps of the thread that runs the go handler.
MainStep ==
    \/ current_depth < DepthCeil /\ LoopHead
    \/ LoopHeadAtCeil
    \/ SearchSMTS(DepthCeil, MaxPolls)
    \/ SearchMABS(DepthCeil, MaxPolls)
    \/ GoEnd

NextGoLive ==
    \/ \E value \in BOOLEAN : CmdSetOption(value)
    \/ \E args \in LiveArgs : Len(gameHashes) <= MaxGoes /\ GoStart(args)
    \/ TimerFire
    \/ MainStep

\* ENABLED <<MainStep>>_vars: the handler is at its loop head, at a search call,
\* or at the join with the timer task ended.
MainEnabled == pc \in {"loop", "search"} \/ (pc = "join" /\ timer # "running")

\* The handler's thread keeps running (weak fairness of MainStep, its ENABLED
\* written as MainEnabled) and the timer task is scheduled fairly.
SpecGoLive ==
    /\ InitGoLive
    /\ [][NextGoLive]_vars
    /\ ([]<>(~MainEnabled) \/ []<><<MainStep>>_vars)
    /\ WF_vars(TimerFire)

-----------------------------------------------------------------------------
(* SpecGoSingle: go requests on roots with one move or with promotions only *)

FenLonePawnBlack == << "8/4p3/8/8/8/8/8/8", "b" >>

\* The white king in the corner behind its own pawns: b7 is its only square.
FenKingBoxed == << "KP6/P7/8/8/8/8/8/7k", "w" >>

\* A white pawn one step from promotion.
FenPromote == << "4k3/P7/8/8/8/8/8/8", "w" >>

SingleFens == { FenLonePawn, FenLonePawnBlack, FenKingBoxed, FenPromote }

InitGoSingle ==
    /\ \E fen \in SingleFens :
           /\ pos = fromFEN(fen)
           /\ gameHashes = << getZobristHash(fromFEN(fen)) >>
    /\ stop_search = FALSE
    /\ use_bandit_search = FALSE
    /\ movetime = 0
    /\ target_depth = 0
    /\ current_depth = 0
    /\ best_pv = <<>>
    /\ timer = "none"
    /\ pc = "idle"
    /\ out = ""
    /\ line = <<>>
    /\ last = NoResult
    /\ completed_pv = <<>>

SpecGoSingle == InitGoSingle /\ [][NextGo]_vars

-----------------------------------------------------------------------------
(* SpecFen: position fen commands over a family of well-formed FENs *)

\* Contents of one rank: the black back rank and two ranks mixing digits and
\* letters; together they hold each of the twelve piece letters.
RankFields == { "rnbqkbnr", "P2B2Np", "3QK2R" }

\* Placement fields with ranks 8, 5 and 1 drawn from RankFields.
Placements ==
    { r8 \o "/8/8/" \o r5 \o "/8/8/8/" \o r1 : r8 \in RankFields, r5 \in RankFields,
                                                 r1 \in RankFields }

\* What follows the placement field: nothing, or one active-colour field.
ColourFields == { <<>>, << "w" >>, << "b" >>, << "B" >> }

FenInputs == { << placement >> \o colour : placement \in Placements, colour \in ColourFields }

NextFen ==
    \/ \E fen \in FenInputs, hasMoves \in BOOLEAN : CmdPositionFen(fen, hasMoves)
    \/ EndOfMoves

SpecFen == Init /\ [][NextFen]_vars

-----------------------------------------------------------------------------
(* SpecLegal: games played with generated moves only *)

MaxPly == 4

\* A move token that encodes a move of genMoves(), as a GUI sends it.
PlayGenerated ==
    /\ Len(line) < MaxPly
    /\ LET moves == genMoves(pos)
       IN  \E i \in 1..Len(moves) : ReadMove(move_to_uci_with_promotion(moves[i]))

NextLegal ==
    \/ CmdPositionStartpos(TRUE)
    \/ PlayGenerated

SpecLegal == Init /\ [][NextLegal]_vars

-----------------------------------------------------------------------------
(* SpecRepetition: a client shuffles the knights from the start position *)

MaxShuffle == 8

ShuffleTokens == { "g1f3", "f3g1", "b1c3", "c3b1", "g8f6", "f6g8", "b8c6", "c6b8" }

\* The client sends a knight move of the side to move.
ReadShuffle ==
    /\ Len(line) < MaxShuffle
    /\ \E token \in ShuffleTokens :
           /\ makeMove(pos, uci_to_move(token)) # pos
           /\ ReadMove(token)

NextRepetition ==
    \/ CmdPositionStartpos(TRUE)
    \/ ReadShuffle

SpecRepetition == Init /\ [][NextRepetition]_vars

-----------------------------------------------------------------------------
(* The claims *)

\* The squares attacked for the king of `side` in p: the detector of the code run
\* for that side.
KingAttacked(p, side) == is_in_check([p EXCEPT !.side = side])

\* C1: in every position reached from the start position through generated
\* moves, no move of genMoves() leaves the king of the side that played it
\* attacked in the position after the move.
C1_Legality ==
    LET moves == genMoves(pos)
    IN  \A i \in 1..Len(moves) : ~KingAttacked(makeMove(pos, moves[i]), pos.side)

\* C2 as stated: genMoves() on the start position returns exactly 20 moves.
C2_StartHas20Moves == pos = create_start_position => Len(genMoves(pos)) = 20

\* C2 as amended: genMoves() on the start position returns exactly 12 moves, the
\* eight single pawn steps and the four knight moves.
C2_StartHas12Moves ==
    pos = create_start_position =>
        LET moves == genMoves(pos)
        IN  /\ Len(moves) = 12
            /\ \A i \in 1..Len(moves) :
                   \/ moves[i].from \in pos.pieces[1]
                   \/ moves[i].from \in pos.pieces[0] /\ moves[i].to = moves[i].from + 8

C2_Witness ==
    /\ pc = "moves"
    /\ line = <<>>
    /\ pos = create_start_position
    /\ Len(genMoves(pos)) = 12

\* C3: in every position reached from the start position through generated
\* moves, no generated move has as destination the square of a king, and each
\* king plane holds exactly one bit.
C3_NoKingCapture ==
    /\ LET moves == genMoves(pos)
       IN  \A i \in 1..Len(moves) : moves[i].to \notin (pos.pieces[5] \cup pos.pieces[11])
    /\ Cardinality(pos.pieces[5]) = 1
    /\ Cardinality(pos.pieces[11]) = 1

FoolsMate == << "f2f3", "e7e5", "g2g4", "d8h4" >>

\* C4: is_checkmate() is true on the position the four moves of Fool's Mate
\* reach from the start position.
C4_FoolsMateIsCheckmate ==
    (/\ line = FoolsMate
     /\ gameHashes[1] = getZobristHash(create_start_position)
     /\ Len(gameHashes) = 5)
        => is_checkmate(pos)

\* C5: in every position the protocol reaches, no two piece planes share a bit,
\* wOcc, bOcc and allOcc are the unions of their planes, and
\* popcount(wOcc) + popcount(bOcc) = popcount(allOcc).
C5_PlanesDisjoint ==
    /\ \A i, j \in 0..11 : i # j => pos.pieces[i] \cap pos.pieces[j] = {}
    /\ pos.wOcc = Occ(pos.pieces, 0)
    /\ pos.bOcc = Occ(pos.pieces, 6)
    /\ pos.allOcc = pos.wOcc \cup pos.bOcc
    /\ Cardinality(pos.wOcc) + Cardinality(pos.bOcc) = Cardinality(pos.allOcc)

Shuffle == << "g1f3", "g8f6", "f3g1", "f6g8" >>

\* line replays the shuffle, over and over, from its first move.
IsReplay(l) == \A i \in 1..Len(l) : l[i] = Shuffle[((i - 1) % 4) + 1]

\* C6: while the knight shuffle is replayed from the start position, with one
\* hash in the history per position, is_threefold_repetition() is false up to
\* and including the second return to the start position (move 4) and true at
\* the third occurrence of the start position (move 8).
C6_ThreefoldOnThirdOccurrence ==
    (IsReplay(line) /\ Len(line) <= 8) =>
        /\ gameHashes[1] = getZobristHash(create_start_position)
        /\ Len(gameHashes) = Len(line) + 1
        /\ is_threefold_repetition(pos, gameHashes) <=> (Len(line) = 8)

C6_Witness ==
    /\ line = Shuffle \o Shuffle
    /\ pos = create_start_position
    /\ is_threefold_repetition(pos, gameHashes)

MaxNoopLine == 1

\* The union of the six planes of the side to move.
OwnPlanes(p) == Occ(p.pieces, IF p.side = 0 THEN 0 ELSE 6)

\* C7: for a move whose origin holds no piece of the side to move, makeMove
\* returns the position unchanged in every plane, in the occupancies and in the
\* side to move, whatever the destination and the promotion are.
C7_MalformedMoveIsNoop ==
    Len(line) <= MaxNoopLine =>
        \A from \in Squares \ OwnPlanes(pos), to \in Squares,
           promotion \in {-1, 1, 2, 3, 4} :
            LET next == makeMove(pos, Move(from, to, promotion))
            IN  /\ next.pieces = pos.pieces
                /\ next.wOcc = pos.wOcc
                /\ next.bOcc = pos.bOcc
                /\ next.allOcc = pos.allOcc
                /\ next.side = pos.side

\* A token whose origin is a black pawn was read with white to move: the
\* history grew and the position is still the start position.
C7_Witness ==
    /\ line = << "e7e5" >>
    /\ Len(gameHashes) = 2
    /\ pos = create_start_position

\* The schedules under which the flag is set when a call is entered after n loads.
SetAtEntry == { << <<k>>, n >> : k \in 0..MaxPolls, n \in 0..MaxPolls }

IsLeaf(r, p, n) ==
    /\ r.value = EvalV(p)
    /\ r.pvs = {<<>>}
    /\ r.n = n + 1
    /\ r.nodes = 1
    /\ r.gens = 0

\* C8: a call of SMTS or MABS that finds the stop flag set at its entry returns
\* the static evaluation of its position with an empty PV, makes no further
\* call and generates no moves, at every depth.
C8_CancelOnEntry ==
    /\ (pc \in {"loop", "join"} /\ last.entry_stop) =>
           /\ last.value = EvalV(pos)
           /\ last.pv = <<>>
           /\ last.nodes = 1
           /\ last.gens = 0
    /\ \A depth \in 0..MaxDepth, e \in SetAtEntry :
           e[1][1] <= e[2] =>
               /\ IsLeaf(SMTS(pos, depth, e[1], e[2]), pos, e[2])
               /\ IsLeaf(MABS(pos, depth, e[1], e[2]), pos, e[2])

\* A search call of a go request on a position with moves was entered with the
\* flag set.
C8_Witness ==
    /\ pc \in {"loop", "join"}
    /\ last.entry_stop
    /\ current_depth >= 1
    /\ genMoves(pos) # <<>>
    /\ last.pv = <<>>

\* C9: the move a go request reports is the first move of the PV of the deepest
\* iteration that ran to its end with the stop flag never set.
C9_BestMoveFromCompletedDepth ==
    (pc = "idle" /\ out # "" /\ completed_pv # <<>>) =>
        out = move_to_uci(completed_pv[1])

\* C10: a go request on a position without moves reports 0000 and leaves the
\* game position and the game history as they were.
C10_NoMovesNoBestMove ==
    [][(pc = "join" /\ pc' = "idle" /\ genMoves(pos) = <<>>) =>
           (out' = "0000" /\ pos' = pos /\ gameHashes' = gameHashes)]_vars

\* A go request on a position without moves has run its iterations under MABS
\* and a time budget and has reported 0000.
C10_Witness ==
    /\ pc = "idle"
    /\ out = "0000"
    /\ genMoves(pos) = <<>>
    /\ use_bandit_search
    /\ movetime > 0
    /\ current_depth >= 2

\* C11: a go request on a root position with at least one move in genMoves()
\* never reports 0000, at whatever moment the timer task sets the stop flag.
C11_CancelledGoReportsMove ==
    (pc = "idle" /\ out = "0000") => genMoves(pos) = <<>>

\* C13: from the reset of the stop flag at the start of a go request to the end
\* of the request, no step takes the flag from true to false.
C13_StopFlagMonotonic ==
    [][(pc # "idle" /\ stop_search) => stop_search']_vars

\* The timer task has set the flag while an iteration was about to run, and the
\* loop has since then gone through its head.
C13_Witness ==
    /\ pc = "join"
    /\ stop_search
    /\ timer = "done"
    /\ current_depth >= 2

C19_NoIterationBeyondMaxDepth ==
    (pc = "search" /\ target_depth >= 1) => current_depth <= target_depth

\* C12: every go request, whatever the signs of the numbers it carries, comes
\* to its bestmove line when the timer task is scheduled fairly.
C12_GoTerminates == (pc # "idle") ~> (pc = "idle")

\* C14: on a position whose genMoves() has exactly one element m, SMTS at depth 1
\* and MABS at depth 1, run with the stop flag never set, return only PVs whose
\* first element is m.
C14_SingleMoveIsPV ==
    LET moves == genMoves(pos)
    IN  Len(moves) = 1 =>
            /\ \A pv \in SMTS(pos, 1, <<>>, 0).pvs : pv # <<>> /\ pv[1] = moves[1]
            /\ \A pv \in MABS(pos, 1, <<>>, 0).pvs : pv # <<>> /\ pv[1] = moves[1]
            /\ (pc = "loop" /\ current_depth = 1 /\ ~stop_search /\ completed_pv # <<>>)
                   => completed_pv[1] = moves[1]

\* The depth-1 iteration of a go request under MABS has ended, with the flag
\* never set, on a root with one move, and its PV starts with that move.
C14_Witness ==
    /\ pc = "loop"
    /\ current_depth = 1
    /\ use_bandit_search
    /\ ~stop_search
    /\ LET moves == genMoves(pos)
       IN  Len(moves) = 1 /\ completed_pv = << moves[1] >>

\* C17: the string printed after bestmove decodes, with uci_to_move, to the
\* (from, to, promotion) move that the engine applied to its game position.
C17_BestMoveRoundTrip ==
    (pc = "idle" /\ out \notin {"", "0000"} /\ best_pv # <<>>) =>
        uci_to_move(out) = best_pv[1]

\* C15: fromFEN sets side to black only when the active-colour field is "b"; for
\* every other input, a missing field included, side is white.
C15_SideBlackOnlyOnB ==
    \A fen \in FenInputs :
        (pos = fromFEN(fen) /\ Len(gameHashes) = 1) =>
            pos.side = (IF Len(fen) >= 2 /\ fen[2] = "b" THEN 1 ELSE 0)

\* The grid a placement field describes, read off the field alone: a letter is
\* itself, a digit d is d empty squares, '/' ends a rank; rank 8 comes first.
RECURSIVE DecodePlacement(_)
DecodePlacement(placement) ==
    IF placement = "" THEN "\n"
    ELSE
        LET c == Head(placement)
            Dots[k \in 0..8] == IF k = 0 THEN "" ELSE ". " \o Dots[k - 1]
        IN  (IF c = "/" THEN "\n"
             ELSE IF IsIn(Digit, c) THEN Dots[IndexIn(Digit, c) - 1]
             ELSE c \o " ")
            \o DecodePlacement(Tail(placement))

\* C16: for a well-formed placement field, fromFEN(fen).to_string() shows on every
\* square the letter the field puts there and '.' on every empty square, rank 8
\* first and file a first.
C16_FenRoundTrip ==
    \A fen \in FenInputs :
        pos = fromFEN(fen) => to_string(pos) = DecodePlacement(fen[1])

\* A position fen command has set a position with pieces on ranks 8, 5 and 1,
\* and its grid is the one of the placement field.
C16_Witness ==
    /\ pc = "idle"
    /\ pos = fromFEN(<< "rnbqkbnr/8/8/P2B2Np/8/8/8/3QK2R", "w" >>)
    /\ to_string(pos) = DecodePlacement("rnbqkbnr/8/8/P2B2Np/8/8/8/3QK2R")
    /\ SubSeq(to_string(pos), 1, 16) = "r n b q k b n r "

\* The positions a position command can start from.
Roots == {create_start_position} \cup {fromFEN(fen) : fen \in Fens}

\* The positions reached along the game line: the root, then one position for
\* each token that makeMove does not treat as a no-op.
RECURSIVE GameLine(_, _)
GameLine(root, tokens) ==
    IF tokens = <<>> THEN << root >>
    ELSE LET before == GameLine(root, SubSeq(tokens, 1, Len(tokens) - 1))
             cur    == before[Len(before)]
             next   == makeMove(cur, uci_to_move(tokens[Len(tokens)]))
         IN  IF next = cur THEN before ELSE Append(before, next)

\* C20: is_threefold_repetition() on the game position is true only if that
\* position has occurred at least three times along the game line, where a token
\* that makeMove treats as a no-op adds no occurrence.
C20_ThreefoldCountsReachedPositions ==
    \A root \in Roots :
        LET reached == GameLine(root, line)
        IN  (/\ Len(gameHashes) = Len(line) + 1
             /\ gameHashes[1] = getZobristHash(root)
             /\ reached[Len(reached)] = pos
             /\ is_threefold_repetition(pos, gameHashes))
                => Cardinality({i \in 1..Len(reached) : reached[i] = pos}) >= 3

\* The arrays of the MABS node of pos at depth 1 after its first k iterations,
\* the stop flag never set.
AfterIterations(moves, k) ==
    MABSRange(pos, moves, 1, <<>>, 1, k, MABSStart(Len(moves), 0))

\* The arm the selection loop takes for iteration iter on the arrays st.
Selected(st, iter) ==
    SelectArm(st.plays, st.totalReward, iter, 1, 0, [inf |-> -1, avg |-> 0, plays |-> 0])

MaxIter == 8

\* The states in which the MABS node of pos is examined: a go request under
\* MABS has just searched pos at depth 1.
AtMABSRoot == pc = "loop" /\ use_bandit_search /\ current_depth = 1

\* C21: in a MABS node with n moves and the stop flag not set, iteration i, for
\* i <= min(n, 100), selects arm i-1, so that every arm is played once, in
\* generation order, before any arm is played again; as long as an arm has no
\* plays the arm selected is the first such arm.
C21_ArmsInGenerationOrder ==
    AtMABSRoot =>
    LET moves == genMoves(pos)
        arms  == Len(moves)
    IN  arms > 0 =>
            /\ \A i \in 1..(IF arms < iterations THEN arms ELSE iterations) :
                   LET before == IF i = 1 THEN MABSStart(arms, 0)
                                 ELSE AfterIterations(moves, i - 1)
                   IN  /\ before.plays = [a \in 1..arms |-> IF a < i THEN 1 ELSE 0]
                       /\ Selected(before, i) = i
            /\ \A k \in 1..MaxIter :
                   LET st == AfterIterations(moves, k)
                   IN  (\E a \in 1..arms : st.plays[a] = 0) =>
                           /\ st.plays[Selected(st, k + 1)] = 0
                           /\ \A a \in 1..(Selected(st, k + 1) - 1) : st.plays[a] > 0

\* A go request under MABS has run its depth-1 iteration, 100 child calls, on a
\* root with more than one move.
C21_Witness ==
    /\ pc = "loop"
    /\ use_bandit_search
    /\ current_depth = 1
    /\ last.nodes = iterations + 1
    /\ Len(genMoves(pos)) >= 2

\* The stop schedules of a MABS node at depth 1: never set, or set after one,
\* two (before or after the second child's entry load) or three plays.
CancelSchedules == {<<>>, <<3>>, <<4>>, <<5>>, <<7>>}

\* C22: when the iterations of a MABS node have ended, cancelled or not, with
\* some arm played, the arm chosen is the lowest-index arm of maximal average
\* reward among the played arms, the value returned is that average, the PV is
\* that arm's move followed by the child PV recorded for the arm, whose recorded
\* best reward is no less than its average, and the arm chosen has been played.
C22_BestArmByAverage ==
    AtMABSRoot =>
    LET moves == genMoves(pos)
    IN  moves # <<>> =>
            \A s \in CancelSchedules :
                LET st     == MABSStats(pos, moves, 1, s, 0)
                    r      == MABS(pos, 1, s, 0)
                    played == {a \in 1..Len(moves) : st.plays[a] > 0}
                IN  played # {} =>
                        \E a \in played :
                            /\ \A b \in played :
                                   /\ DivV(st.totalReward[a], st.plays[a]) >=
                                          DivV(st.totalReward[b], st.plays[b])
                                   /\ DivV(st.totalReward[a], st.plays[a]) =
                                          DivV(st.totalReward[b], st.plays[b]) => a <= b
                            /\ r.value = DivV(st.totalReward[a], st.plays[a])
                            /\ r.pvs = {<<moves[a]>> \o st.bestPV[a]}
                            /\ st.bestReward[a] * st.plays[a] >= st.totalReward[a]

\* A go request under MABS has run its depth-1 iteration on a root with several
\* moves and has chosen an arm that is not the first one.
C22_Witness ==
    /\ pc = "loop"
    /\ use_bandit_search
    /\ current_depth = 1
    /\ last.nodes = iterations + 1
    /\ LET moves == genMoves(pos)
       IN  Len(moves) >= 2 /\ last.pv # <<>> /\ last.pv[1] # moves[1]

\* Every move of pv is generated for the position the moves before it lead to
\* from p.
RECURSIVE Playable(_, _)
Playable(p, pv) ==
    \/ pv = <<>>
    \/ LET moves == genMoves(p)
       IN  /\ \E i \in 1..Len(moves) : moves[i] = pv[1]
           /\ Playable(makeMove(p, pv[1]), Tail(pv))

\* C23: the PV a search call on the root returns, under SMTS or MABS, cancelled
\* or not, has at most as many moves as the depth of the call, and each of its
\* moves is generated for the position reached by the moves before it.
C23_PVIsPlayableLine ==
    /\ pc \in {"search", "loop", "join"} => Playable(pos, last.pv)
    /\ pc = "loop" => Len(last.pv) <= current_depth

\* A depth-2 iteration has returned a PV of two moves.
C23_Witness ==
    /\ pc = "loop"
    /\ current_depth = MaxSmtsDepth
    /\ Len(last.pv) = 2

-----------------------------------------------------------------------------
(* SpecPromotion: games played with generated moves from positions whose pawns
   stand one step from their last rank *)

MaxPromotionPly == 3

\* Each side has a pawn that can step to an empty last-rank square and capture
\* onto an occupied one.
FenRaceWhite == << "1n2k3/P7/8/8/8/8/p7/1N2K3", "w" >>

FenRaceBlack == << "1n2k3/P7/8/8/8/8/p7/1N2K3", "b" >>

PromotionFens == { FenRaceWhite, FenRaceBlack, FenPromote }

PlayPromotion ==
    /\ Len(line) < MaxPromotionPly
    /\ LET moves == genMoves(pos)
       IN  \E i \in 1..Len(moves) : ReadMove(move_to_uci_with_promotion(moves[i]))

NextPromotion ==
    \/ \E fen \in PromotionFens : CmdPositionFen(fen, TRUE)
    \/ PlayPromotion

SpecPromotion == Init /\ [][NextPromotion]_vars

\* The last rank of the side to move of p.
LastRank(p) == IF p.side = 0 THEN 56..63 ELSE 0..7

\* Chess: the pawn on from may go to the last-rank square to, by a step straight
\* ahead onto an empty square or a diagonal step onto an enemy piece.
PawnReaches(p, from, to) ==
    LET ahead == IF p.side = 0 THEN from + 8 ELSE from - 8
    IN  \/ to = ahead /\ to \notin p.allOcc
        \/ /\ to \in {ahead - 1, ahead + 1}
           /\ (to \div 8) = (ahead \div 8)
           /\ to \in enemyOcc(p)

\* C24: for every pawn destination on the last rank the pawn generator emits
\* exactly four moves, one per promotion piece, and no move without a promotion;
\* makeMove takes the pawn off its square and puts the chosen piece on the
\* destination, where no pawn then stands; no position reached through generated
\* moves has a white pawn on rank 8 or a black pawn on rank 1.
C24_PromotionIsFourfold ==
    LET pm     == generatePawnMoves(pos)
        offset == IF pos.side = 0 THEN 0 ELSE 6
    IN  /\ \A from \in pos.pieces[offset] : \A to \in LastRank(pos) :
               LET ms == {i \in 1..Len(pm) : pm[i].from = from /\ pm[i].to = to}
               IN  IF PawnReaches(pos, from, to)
                   THEN /\ Cardinality(ms) = 4
                        /\ {pm[i].promotion : i \in ms} = {1, 2, 3, 4}
                   ELSE ms = {}
        /\ \A i \in 1..Len(pm) :
               pm[i].promotion # -1 =>
                   LET next == makeMove(pos, pm[i])
                   IN  /\ pm[i].from \notin next.allOcc
                       /\ pm[i].to \notin next.pieces[0] \cup next.pieces[6]
                       /\ pm[i].to \in next.pieces[offset + pm[i].promotion]
                       /\ \A k \in 0..11 :
                              k # offset + pm[i].promotion => pm[i].to \notin next.pieces[k]
        /\ pos.pieces[0] \cap (56..63) = {}
        /\ pos.pieces[6] \cap (0..7) = {}

\* A generated promotion has been played and the other side's pawn can promote
\* in turn.
C24_Witness ==
    /\ line # <<>>
    /\ Len(line[Len(line)]) = 5
    /\ \E i \in 1..Len(generatePawnMoves(pos)) : generatePawnMoves(pos)[i].promotion # -1

\* Distance in files and ranks between two squares.
FileDist(a, b) == IF (a % 8) >= (b % 8) THEN (a % 8) - (b % 8) ELSE (b % 8) - (a % 8)

RankDist(a, b) ==
    IF (a \div 8) >= (b \div 8) THEN (a \div 8) - (b \div 8) ELSE (b \div 8) - (a \div 8)

\* C25: every move the pawn generator emits goes one rank forward for the
\* mover, straight onto an empty square or one file aside onto an enemy-occupied
\* square (so no double step and no en passant), and every move the king
\* generator emits goes to a square at distance one (so no castling); the moves
\* of genMoves are among these.
C25_PawnsStepOnce ==
    LET pm     == generatePawnMoves(pos)
        km     == generateKingMoves(pos)
        offset == IF pos.side = 0 THEN 0 ELSE 6
    IN  /\ \A i \in 1..Len(pm) :
               /\ pm[i].from \in pos.pieces[offset]
               /\ (pm[i].to \div 8) = (pm[i].from \div 8) + (IF pos.side = 0 THEN 1 ELSE -1)
               /\ \/ (pm[i].to % 8) = (pm[i].from % 8) /\ pm[i].to \notin pos.allOcc
                  \/ FileDist(pm[i].from, pm[i].to) = 1 /\ pm[i].to \in enemyOcc(pos)
        /\ \A i \in 1..Len(km) :
               /\ km[i].from \in pos.pieces[offset + 5]
               /\ FileDist(km[i].from, km[i].to) <= 1
               /\ RankDist(km[i].from, km[i].to) <= 1

\* After some moves a white pawn still stands on its first rank with the two
\* squares ahead of it empty and has a move, and the king generator emits moves.
C25_Witness ==
    LET pm == generatePawnMoves(pos)
    IN  /\ line # <<>>
        /\ pos.side = 0
        /\ \E from \in pos.pieces[0] :
               /\ (from \div 8) = 1
               /\ from + 8 \notin pos.allOcc
               /\ from + 16 \notin pos.allOcc
               /\ \E i \in 1..Len(pm) : pm[i].from = from
        /\ generateKingMoves(pos) # <<>>

-----------------------------------------------------------------------------
(* SpecCheck: a client sets up positions with a king on e4 (white to move) or
   e5 (black to move) and enemy pieces around it *)

\* Rank 6 above the white king: empty, a bishop on the king's diagonal, a knight
\* a knight's move away, a queen on the king's file.
AboveFields == { "8", "2b5", "3n4", "4q3" }

\* Rank 5: empty, a pawn on the king's forward diagonal, a pawn straight ahead,
\* an adjacent king, a pawn of the king's own colour on the bishop's diagonal.
AheadFields == { "8", "3p4", "4p3", "3k4", "3P4" }

\* Ranks 4 and 3: the king alone, a rook on its rank, the rook behind a pawn of
\* the king's colour, an enemy pawn on the king's backward diagonal.
KingFields == { <<"4K3", "8">>, <<"r3K3", "8">>, <<"rP2K3", "8">>, <<"4K3", "3p4">> }

\* The same squares seen from the black king on e5, colours exchanged.
BelowFields == { "8", "2B5", "3N4", "4Q3" }

BehindFields == { "8", "3P4", "4P3", "3K4", "3p4" }

BlackKingFields == { <<"8", "4k3">>, <<"8", "R3k3">>, <<"8", "Rp2k3">>, <<"3P4", "4k3">> }

CheckFens ==
    { << "8/8/" \o a \o "/" \o b \o "/" \o k[1] \o "/" \o k[2] \o "/8/8", "w" >> :
          a \in AboveFields, b \in AheadFields, k \in KingFields }
    \cup
    { << "8/8/" \o k[1] \o "/" \o k[2] \o "/" \o b \o "/" \o a \o "/8/8", "b" >> :
          a \in BelowFields, b \in BehindFields, k \in BlackKingFields }

NextCheck == \E fen \in CheckFens : CmdPositionFen(fen, FALSE)

SpecCheck == Init /\ [][NextCheck]_vars

-----------------------------------------------------------------------------
(* SpecMaterial: a client sets up positions with few pieces *)

\* Rank 8: the black king alone, with one bishop, with bishops on squares of
\* both colours, with two knights, with a knight and a bishop.
BlackRankFields == { "4k3", "2b1k3", "2b1kb2", "1n2k1n1", "1nb1k3" }

\* Rank 5: empty, a third knight of either colour, a white bishop on e5 (the
\* colour of c1) or on d5 (the other colour), a pawn, a rook, a queen.
MiddleFields == { "8", "3n4", "3N4", "4B3", "3B4", "P7", "7r", "3Q4" }

\* Rank 1, as rank 8 for White.
WhiteRankFields == { "4K3", "2B1K3", "2B1KB2", "1N2K1N1", "1NB1K3" }

MaterialFens ==
    { << b \o "/8/8/" \o m \o "/8/8/8/" \o w, "w" >> :
          b \in BlackRankFields, m \in MiddleFields, w \in WhiteRankFields }

NextMaterial == \E fen \in MaterialFens : CmdPositionFen(fen, FALSE)

SpecMaterial == Init /\ [][NextMaterial]_vars

-----------------------------------------------------------------------------
(* SpecSession: every command of the protocol loop in one session, the searches
   one ply deep *)

MaxSessionLine == 1

MaxSessionHistory == 3

SessionFens == { FenCapture }

SessionTokens == { "e2e3" }

SessionArgs == [depth : {1}, movetime : {0, 30}, wtime : {0}, btime : {0}]

ReadSessionToken ==
    /\ Len(line) < MaxSessionLine
    /\ \E token \in SessionTokens : ReadMove(token)

NextSession ==
    \/ CmdUciNewGame
    \/ \E hasMoves \in BOOLEAN : CmdPositionStartpos(hasMoves)
    \/ \E fen \in SessionFens, hasMoves \in BOOLEAN : CmdPositionFen(fen, hasMoves)
    \/ ReadSessionToken
    \/ EndOfMoves
    \/ \E value \in BOOLEAN : CmdSetOption(value)
    \/ CmdStop
    \/ \E args \in SessionArgs : Len(gameHashes) < MaxSessionHistory /\ GoStart(args)
    \/ TimerFire
    \/ LoopHead
    \/ SearchSMTS(1, MaxPolls)
    \/ SearchMABS(1, MaxPolls)
    \/ GoEnd

SpecSession == Init /\ [][NextSession]_vars

\* The squares that hold a piece of p, of either colour.
Occupied(p) == UNION {p.pieces[k] : k \in 0..11}

\* The squares strictly between a and b, which share a rank, a file or a diagonal.
Between(a, b) ==
    {sq \in Squares \ {a, b} :
        /\ RankDist(a, sq) + RankDist(sq, b) = RankDist(a, b)
        /\ FileDist(a, sq) + FileDist(sq, b) = FileDist(a, b)
        /\ RankDist(a, b) = FileDist(a, b) => RankDist(a, sq) = FileDist(a, sq)}

\* Chess: a piece of colour by standing on a attacks the square k in p.
Attacks(p, by, a, k) ==
    LET off == IF by = 0 THEN 0 ELSE 6
    IN  /\ a # k
        /\ \/ /\ a \in p.pieces[off]
              /\ FileDist(a, k) = 1
              /\ (k \div 8) = (a \div 8) + (IF by = 0 THEN 1 ELSE -1)
           \/ /\ a \in p.pieces[off + 1]
              /\ {RankDist(a, k), FileDist(a, k)} = {1, 2}
           \/ /\ a \in p.pieces[off + 5]
              /\ RankDist(a, k) <= 1
              /\ FileDist(a, k) <= 1
           \/ /\ a \in p.pieces[off + 2] \cup p.pieces[off + 4]
              /\ RankDist(a, k) = FileDist(a, k)
              /\ Between(a, k) \cap Occupied(p) = {}
           \/ /\ a \in p.pieces[off + 3] \cup p.pieces[off + 4]
              /\ RankDist(a, k) = 0 \/ FileDist(a, k) = 0
              /\ Between(a, k) \cap Occupied(p) = {}

\* C26: for either colour that has exactly one king in the position, the check
\* detector run for that colour answers true exactly when some enemy piece
\* attacks the king's square by the rules of chess: a pawn from the king's
\* forward diagonal, a knight, an adjacent king, a bishop or queen along a
\* diagonal or a rook or queen along a rank or file with no piece of either
\* colour strictly between.
C26_CheckDetectionIsChess ==
    \A side \in {0, 1} :
        LET kings == pos.pieces[IF side = 0 THEN 5 ELSE 11]
        IN  Cardinality(kings) = 1 =>
                (is_in_check([pos EXCEPT !.side = side]) <=>
                     \E a \in Squares : \E k \in kings : Attacks(pos, 1 - side, a, k))

\* The black king, to move, is in check and White has nothing but pawns.
C26_Witness ==
    /\ pos.side = 1
    /\ Cardinality(pos.pieces[11]) = 1
    /\ is_in_check(pos)
    /\ pos.wOcc # {}
    /\ pos.wOcc = pos.pieces[0]


\* Chess squares of the two colours.
SameColour(a, b) == ((a \div 8) + (a % 8) + (b \div 8) + (b % 8)) % 2 = 0

\* The mating material of the statement: a knight together with a bishop, or
\* two bishops on squares of different colours, or three knights.
MatingMaterial(knights, bishops) ==
    \/ knights # {} /\ bishops # {}
    \/ \E a \in bishops : \E b \in bishops : ~SameColour(a, b)
    \/ \E a \in knights : \E b \in knights \ {a} : knights \ {a, b} # {}

\* C27: isInsufficientMaterial() is true exactly when no pawn, rook or queen of
\* either colour is on the board and neither side has a knight with a bishop,
\* bishops on squares of both colours, or three knights.
C27_InsufficientMaterial ==
    isInsufficientMaterial(pos) <=>
        /\ \A k \in {0, 3, 4, 6, 9, 10} : pos.pieces[k] = {}
        /\ ~MatingMaterial(pos.pieces[1], pos.pieces[2])
        /\ ~MatingMaterial(pos.pieces[7], pos.pieces[8])

\* White has two bishops on squares of one colour, Black two knights, and the
\* material is found insufficient.
C27_Witness ==
    /\ isInsufficientMaterial(pos)
    /\ Cardinality(pos.pieces[2]) = 2
    /\ Cardinality(pos.pieces[7]) = 2

\* C28: whenever the protocol loop waits for its next command, whichever
\* commands came before (ucinewgame, position startpos, position fen with or
\* without moves, setoption, stop, go), the game history is non-empty and its
\* last entry is the Zobrist hash of the current game position.
C28_HistoryEndsAtCurrentPosition ==
    pc = "idle" =>
        /\ gameHashes # <<>>
        /\ gameHashes[Len(gameHashes)] = getZobristHash(pos)

\* A go request that followed a position command with a move has played its
\* best move.
C28_Witness ==
    /\ pc = "idle"
    /\ line # <<>>
    /\ out \notin {"", "0000"}
    /\ Len(gameHashes) = 3

\* C29: the value a MABS call on the root returns, whenever the timer task sets
\* the stop flag, is never minus infinity, and the first move of its PV belongs
\* to an arm played at least once.
C29_MABSValueFromPlayedArm ==
    AtMABSRoot =>
        /\ last.value # -Inf
        /\ LET moves == genMoves(pos)
           IN  \A s \in {<<>>} \cup {<<k>> : k \in 0..MaxPolls} :
                   LET r  == MABS(pos, 1, s, 0)
                       st == MABSStats(pos, moves, 1, s, 0)
                   IN  /\ r.value # -Inf
                       /\ \A pv \in r.pvs :
                              pv # <<>> =>
                                  \E a \in 1..Len(moves) : st.plays[a] > 0 /\ moves[a] = pv[1]

\* C30: while the loop waits for a command no timer task exists, so the timer
\* task of a go request has finished before its bestmove line is emitted; a go
\* request starts its timer only from such a state, so at most one timer task
\* exists at any time and none outlives its request.
C30_NoStaleTimer ==
    /\ pc = "idle" => timer = "none"
    /\ timer \in {"none", "running", "done"}
    /\ timer # "none" => movetime > 0

\* After a go request has emitted its bestmove line, a later go request
\* searches with its own timer task running and the flag not set.
C30_Witness ==
    /\ out # ""
    /\ pc = "search"
    /\ timer = "running"
    /\ ~stop_search

====
